---- MODULE Spec2Model ----
(***************************************************************************)
(* Ambient-sound mixer (script.js): the SoundNode lifecycle                *)
(* (start / stop / setVolume and the deferred teardown), the card click    *)
(* and slider handlers of createUI, the activeSounds registry and the two  *)
(* setTimeout timers (150 ms teardown, 200 ms registry cleanup).           *)
(*                                                                         *)
(* One card of the grid is observed per behaviour; its profile is drawn    *)
(* from the catalog in Init.  Cards share no mutable state except the      *)
(* analyser, whose only state here is the set of connections into it.      *)
(*                                                                         *)
(* Units: gain values in hundredths (0.5 -> 50), frequencies in tenths of  *)
(* a hertz (0.1 Hz -> 1), time in milliseconds.                            *)
(*                                                                         *)
(* Spec is the page (clicks, slider input, timers); FairSpec is the page   *)
(* with an event loop that runs due callbacks; ApiSpec is the SoundNode    *)
(* class called directly.                                                  *)
(***************************************************************************)
EXTENDS Integers, Sequences, FiniteSets, TLC

VARIABLES
    sound,          \* the catalog entry the observed card was built for
    audioCtx,       \* TRUE once initAudio has created the context and analyser
    cardActive,     \* card.classList.contains('active')
    slider,         \* slider.value, in hundredths
    activeSounds,   \* activeSounds[sound.id]: 0 (undefined / null) or a node
    nodes,          \* every SoundNode ever constructed, by identity
    objs,           \* every audio-engine object ever created, by identity
    conns,          \* the engine's connections: <<from, to, port>>
    timers,         \* pending setTimeout callbacks, in scheduling order
    clicks,         \* number of card clicks so far
    hist,           \* history: per node, the pattern of calls made on it
    lastRun         \* history: the method calls made by the last handler run

vars == <<sound, audioCtx, cardActive, slider, activeSounds, nodes, objs,
          conns, timers, clicks, hist, lastRun>>

----------------------------------------------------------------------------
(* Bounds *)

MaxClicks == 6

SliderVals == {50, 80}

\* direct use of the class: number of method calls, and the values handed to
\* setVolume (one below 0, one inside [0, 1], one above 1)
MaxCalls == 5

\* clicks in the behaviours checked for liveness
MaxLiveClicks == 4

ApiVols == {-10, 50, 150}

----------------------------------------------------------------------------
(* The catalog *)

Profile(id, type, filter, modulation, freq, wave, rate, baseFreq) ==
    [id |-> id, type |-> type, filter |-> filter, modulation |-> modulation,
     freq |-> freq, wave |-> wave, rate |-> rate, baseFreq |-> baseFreq]

\* An absent key of a catalog entry is "" (strings) or 0 (numbers): both are
\* falsy in the source's `x || default` and `if (x)` tests.
sounds ==
    { Profile("rain",     "noise",      "lowpass",  "",        0,     "",         0,  0),
      Profile("ocean",    "pink-noise", "lowpass",  "ocean",   0,     "",         0,  0),
      Profile("wind",     "pink-noise", "bandpass", "",        0,     "",         0,  0),
      Profile("crickets", "oscillator", "",         "pulse",   40000, "",         0,  0),
      Profile("drone",    "oscillator", "",         "",        500,   "sawtooth", 0,  0),
      Profile("coffee",   "noise",      "highpass", "",        0,     "",         0,  0),
      Profile("vinyl",    "impulse",    "",         "",        0,     "",         15, 0),
      Profile("fire",     "noise",      "lowpass",  "flicker", 0,     "",         0,  0),
      Profile("chime",    "periodic",   "",         "",        0,     "",         0,  4400),
      Profile("train",    "pink-noise", "lowpass",  "rhythm",  0,     "",         0,  0) }

----------------------------------------------------------------------------
(* The audio engine: objects and connections *)

ANALYSER == 0       \* the shared analyser node (the mix bus)

\* kind: "bufsrc" | "osc" | "filter" | "gain"
\* typ:  buffer kind, waveform or filter type
\* st:   "new" | "started" | "stopped" (sources and oscillators)
\* role (history): what the code created it as: "gain" (the node's output
\*       gain), "source", "filter", "lfo", "lfoGain", "amGain"
\* owner (history): the SoundNode whose constructor or start() created it
AudioObj(kind, role, typ, freq, val, owner) ==
    [kind |-> kind, role |-> role, typ |-> typ, freq |-> freq, val |-> val,
     st |-> "new", owner |-> owner]

\* The world a method runs in: the part of the state the SoundNode methods
\* read and write.
World == [nodes |-> nodes, objs |-> objs, conns |-> conns, timers |-> timers]

NextId(W) == Len(W.objs) + 1

Create(W, o) == [W EXCEPT !.objs = Append(@, o)]

\* a.connect(b) / a.connect(b.param)
Connect(W, a, b, port) == [W EXCEPT !.conns = @ \cup {<<a, b, port>>}]

\* a.disconnect(): drops every outgoing connection of a
Disconnect(W, a) == [W EXCEPT !.conns = {c \in @ : c[1] # a}]

\* x.start() on a freshly created source or oscillator
StartObj(W, a) == [W EXCEPT !.objs[a].st = "started"]

\* x.stop(): the engine rejects stop() on a source that is not running
\* (InvalidStateError)
EngineStop(W, a) ==
    IF W.objs[a].st = "started"
    THEN [w |-> [W EXCEPT !.objs[a].st = "stopped"], err |-> FALSE]
    ELSE [w |-> W, err |-> TRUE]

\* x.stop() with nothing around it: the engine's error reaches the caller
NoTryStop(W, a) == [w |-> EngineStop(W, a).w, threw |-> EngineStop(W, a).err]

\* try { x.stop(); } catch(e){} : the engine's error is swallowed
TryStop(W, a) == [w |-> EngineStop(W, a).w, threw |-> FALSE]

----------------------------------------------------------------------------
(* class SoundNode *)

\* x || default, for a number and for a string
OrNum(x, default) == IF x = 0 THEN default ELSE x

OrStr(x, default) == IF x = "" THEN default ELSE x

SetNode(W, n, field, v) == [W EXCEPT !.nodes[n][field] = v]

\* constructor(config): a gain stage at 0.5, no graph, not playing
NewNode(W, config) ==
    LET n == Len(W.nodes) + 1
        g == NextId(W)
        W1 == Create(W, AudioObj("gain", "gain", "", 0, 50, n))
    IN  [W1 EXCEPT !.nodes = Append(@,
            [config |-> config, gainNode |-> g, source |-> 0, filter |-> 0,
             lfo |-> 0, lfoGain |-> 0, isPlaying |-> FALSE])]

\* The engine calls a method makes, in program order.  Objects are named by
\* the identity they get when created.
ICreate(kind, role, typ, freq, val) ==
    [op |-> "create", kind |-> kind, role |-> role, typ |-> typ, freq |-> freq,
     val |-> val]

ISet(field, a) == [op |-> "set", field |-> field, a |-> a]

IConnect(a, b, port) == [op |-> "connect", a |-> a, b |-> b, port |-> port]

IDisconnect(a) == [op |-> "disconnect", a |-> a]

IStart(a) == [op |-> "start", a |-> a]

IFreq(a, v) == [op |-> "freq", a |-> a, v |-> v]

IPlaying == [op |-> "playing"]

Exec(W, n, ins) ==
    CASE ins.op = "create" ->
            Create(W, AudioObj(ins.kind, ins.role, ins.typ, ins.freq, ins.val, n))
      [] ins.op = "set" -> SetNode(W, n, ins.field, ins.a)
      [] ins.op = "connect" -> Connect(W, ins.a, ins.b, ins.port)
      [] ins.op = "disconnect" -> Disconnect(W, ins.a)
      [] ins.op = "start" -> StartObj(W, ins.a)
      [] ins.op = "freq" -> [W EXCEPT !.objs[ins.a].freq = ins.v]
      [] ins.op = "playing" -> SetNode(W, n, "isPlaying", TRUE)

RECURSIVE Run(_, _, _, _)
Run(W, n, prog, i) ==
    IF i > Len(prog) THEN W ELSE Run(Exec(W, n, prog[i]), n, prog, i + 1)

\* how many objects a program creates
NCreates(prog) == Cardinality({i \in 1..Len(prog) : prog[i].op = "create"})

IsPulse(cfg) == cfg.modulation = "pulse" /\ cfg.type = "oscillator"

\* start(), source creation (b: the identity of the next object).  The buffer
\* sources carry the kind of their buffer in typ (and the impulse rate in
\* val); 'periodic' has no branch and leaves this.source as it was.
StartSource(cfg, b) ==
    CASE cfg.type = "noise" ->
            <<ICreate("bufsrc", "source", "noise", 0, 0), ISet("source", b)>>
      [] cfg.type = "pink-noise" ->
            <<ICreate("bufsrc", "source", "pink-noise", 0, 0), ISet("source", b)>>
      [] cfg.type = "impulse" ->
            <<ICreate("bufsrc", "source", "impulse", 0, OrNum(cfg.rate, 5)),
              ISet("source", b)>>
      [] cfg.type = "oscillator" ->
            <<ICreate("osc", "source", OrStr(cfg.wave, "sine"), OrNum(cfg.freq, 4400), 0),
              ISet("source", b)>>
      [] OTHER -> <<>>

\* start(), the 'pulse' block inside the oscillator branch: an LFO and an AM
\* gain are wired and the LFO started, then the source is disconnected again.
StartPulse(cfg, src, b) ==
    IF cfg.type = "oscillator" /\ cfg.modulation = "pulse"
    THEN <<ICreate("osc", "lfo", "square", 40, 0), ISet("lfo", b),
           ICreate("gain", "lfoGain", "", 0, 100), ISet("lfoGain", b + 1),
           ICreate("gain", "amGain", "", 0, 0),
           IConnect(src, b + 2, "in"),
           IConnect(b, b + 2, "gain"),
           IStart(b),
           IDisconnect(src)>>
    ELSE <<>>

\* this.filter = createBiquadFilter() with the design defaults
StartFilter(cfg, b) ==
    LET freq == CASE cfg.filter = "lowpass" -> 4000
                  [] cfg.filter = "bandpass" -> 5000
                  [] cfg.filter = "highpass" -> 8000
                  [] OTHER -> 3500
        typ == IF cfg.filter \in {"lowpass", "bandpass", "highpass"}
               THEN cfg.filter ELSE "lowpass"
    IN  <<ICreate("filter", "filter", typ, freq, 0), ISet("filter", b)>>

\* An LFO through a depth gain into the cutoff of filter f
CutoffLfo(f, wave, rate, depth, b) ==
    <<ICreate("osc", "lfo", wave, rate, 0), ISet("lfo", b),
      ICreate("gain", "lfoGain", "", 0, depth), ISet("lfoGain", b + 1),
      IConnect(b, b + 1, "in"),
      IConnect(b + 1, f, "frequency"),
      IStart(b)>>

\* the modulation logic with its 'rhythm' branch missing
StartModulationNoRhythm(cfg, f, b) ==
    CASE cfg.modulation = "ocean" ->
            <<IFreq(f, 3000)>> \o CutoffLfo(f, "sine", 1, 30000, b)
      [] cfg.modulation = "flicker" -> CutoffLfo(f, "sine", 150, 10000, b)
      [] OTHER -> <<>>

\* start(), "Modulation logic" inside the filter block
StartModulation(cfg, f, b) ==
    CASE cfg.modulation = "ocean" ->
            <<IFreq(f, 3000)>> \o CutoffLfo(f, "sine", 1, 30000, b)
      [] cfg.modulation = "flicker" -> CutoffLfo(f, "sine", 150, 10000, b)
      [] cfg.modulation = "rhythm" -> CutoffLfo(f, "sawtooth", 40, 20000, b)
      [] OTHER -> <<>>

\* The AM chain built for 'pulse' on an oscillator: a fresh AM gain (b) fed by
\* the source and driven by a fresh square LFO, which replaces this.lfo.
PulseChain(src, b) ==
    <<ICreate("gain", "amGain", "", 0, 100),
      IConnect(src, b, "in"),
      ICreate("osc", "lfo", "square", 40, 0), ISet("lfo", b + 1),
      IConnect(b + 1, b, "gain"),
      IStart(b + 1)>>

\* start(), "Filter chain".  this.source.connect throws when the source is
\* null, which ends the method there.
FilterChain(cfg, src, b) ==
    IF cfg.filter # ""
    THEN LET m == StartModulation(cfg, b, b + 1)
             am == b + 1 + NCreates(m)
         IN  StartFilter(cfg, b) \o m \o
             (IF src = 0 THEN <<>>
              ELSE IF IsPulse(cfg)
                   THEN PulseChain(src, am) \o <<IConnect(am, b, "in")>>
                   ELSE <<IConnect(src, b, "in")>>)
    ELSE IF IsPulse(cfg) THEN PulseChain(src, b) ELSE <<>>

\* outputNode after the filter chain (0 for null)
OutputNode(cfg, src, b) ==
    IF cfg.filter # "" \/ IsPulse(cfg) THEN b ELSE src

\* start() past its guard, as the calls it makes.  A null source makes
\* this.source.connect (filter chain) or outputNode.connect throw a TypeError,
\* which ends the method (and its caller) there.
StartProg(nd, b) ==
    LET cfg == nd.config
        p1 == StartSource(cfg, b)
        src == IF p1 # <<>> THEN b ELSE nd.source
        p2 == StartPulse(cfg, src, b + NCreates(p1))
        b3 == b + NCreates(p1) + NCreates(p2)
        p3 == FilterChain(cfg, src, b3)
        out == OutputNode(cfg, src, b3)
    IN  IF src = 0
        THEN [prog |-> p1 \o p2 \o p3, threw |-> TRUE]
        ELSE [prog |-> p1 \o p2 \o p3 \o
                       <<IConnect(out, nd.gainNode, "in"),
                         IConnect(nd.gainNode, ANALYSER, "in"),
                         IStart(src),
                         IPlaying>>,
              threw |-> FALSE]

StartBody(W, n) ==
    LET sp == StartProg(W.nodes[n], NextId(W))
    IN  [w |-> Run(W, n, sp.prog, 1), threw |-> sp.threw]

\* start() without its isPlaying guard
StartUnguarded(W, n) == StartBody(W, n)

\* start() that also resets the gain to the constructor's default
StartResetsVolume(W, n) ==
    IF W.nodes[n].isPlaying THEN [w |-> W, threw |-> FALSE]
    ELSE LET r == StartBody(W, n)
         IN  [r EXCEPT !.w.objs[W.nodes[n].gainNode].val = 50]

\* start()
Start(W, n) ==
    IF W.nodes[n].isPlaying THEN [w |-> W, threw |-> FALSE] ELSE StartBody(W, n)

TeardownDelay == 150

CleanupDelay == 200

\* mark (history): the number of engine objects that existed when the timer
\* was scheduled; an object with a larger identity was created later.
Timer(kind, n, rem, mark) == [kind |-> kind, node |-> n, rem |-> rem, mark |-> mark]

\* stop() past its guard: fade the gain to 0 and defer the teardown
StopBody(W, n) ==
    LET g == W.nodes[n].gainNode
    IN  [W EXCEPT !.objs[g].val = 0,
                  !.timers = Append(@, Timer("teardown", n, TeardownDelay, Len(W.objs)))]

\* stop() without its isPlaying guard
StopUnguarded(W, n) == StopBody(W, n)

\* stop()
Stop(W, n) == IF ~W.nodes[n].isPlaying THEN W ELSE StopBody(W, n)

\* the callback stop() hands to setTimeout; threw: an error left the callback
Teardown(W, n) ==
    LET src == W.nodes[n].source
        l == W.nodes[n].lfo
        none == [w |-> W, threw |-> FALSE]
        a == IF src # 0 THEN TryStop(W, src) ELSE none
        W1 == IF src # 0 THEN Disconnect(a.w, src) ELSE W
        b == IF l # 0 THEN TryStop(W1, l) ELSE [w |-> W1, threw |-> FALSE]
        W2 == IF l # 0 THEN Disconnect(b.w, l) ELSE W1
    IN  IF a.threw THEN [w |-> a.w, threw |-> TRUE]
        ELSE IF b.threw THEN [w |-> b.w, threw |-> TRUE]
        ELSE [w |-> SetNode(W2, n, "isPlaying", FALSE), threw |-> FALSE]

\* setVolume(val)
SetVolume(W, n, val) == [W EXCEPT !.objs[W.nodes[n].gainNode].val = val]

----------------------------------------------------------------------------
(* History bookkeeping (no effect on the program's state) *)

TeardownPending(W, n) ==
    \E i \in 1..Len(W.timers) : W.timers[i].kind = "teardown" /\ W.timers[i].node = n

\* One method call: the world before and after it, the node's history before
\* it, and whether an error left it.
Call(op, n, arg, pre, post, h, threw) ==
    [op |-> op, node |-> n, arg |-> arg, pre |-> pre, post |-> post, h |-> h,
     threw |-> threw]

\* Per node:
\*   seq      "S"   after a start() that built a graph,
\*            "SX"  after a stop() following it directly,
\*            "SXS" after a start() following that while its teardown is pending,
\*            "-"   after any other start()/stop(), "" on a fresh node;
\*   volIdle  the gain target was last written by setVolume on a node that
\*            was not playing;
\*   vol      the value of the last setVolume (0 if there was none);
\*   faded    a stop() has faded the gain out, and neither setVolume nor a
\*            start() that built a graph has been called since.
NewHist == [seq |-> "", volIdle |-> FALSE, vol |-> 0, faded |-> FALSE]

HistStart(h, pre, post, n) ==
    [h EXCEPT !.seq =
        IF ~pre.nodes[n].isPlaying /\ post.nodes[n].isPlaying THEN "S"
        ELSE IF h.seq = "SX" /\ TeardownPending(pre, n) THEN "SXS"
        ELSE "-",
              !.faded = IF ~pre.nodes[n].isPlaying /\ post.nodes[n].isPlaying
                        THEN FALSE ELSE @]

HistStop(h, pre, n) ==
    [h EXCEPT !.seq = IF h.seq = "S" /\ pre.nodes[n].isPlaying THEN "SX" ELSE "-",
              !.volIdle = IF pre.nodes[n].isPlaying THEN FALSE ELSE @,
              !.faded = IF pre.nodes[n].isPlaying THEN TRUE ELSE @]

HistVolume(h, pre, n, v) ==
    [h EXCEPT !.volIdle = ~pre.nodes[n].isPlaying, !.vol = v, !.faded = FALSE]

----------------------------------------------------------------------------
(* The page *)

DESTINATION == -1       \* audioCtx.destination

\* initAudio(): the first call creates the context and the analyser
InitAudioConns(c) == IF audioCtx THEN c ELSE c \cup {<<ANALYSER, DESTINATION, "in">>}

Init ==
    /\ sound \in sounds
    /\ audioCtx = FALSE
    /\ cardActive = FALSE
    /\ slider = 50
    /\ activeSounds = 0
    /\ nodes = <<>>
    /\ objs = <<>>
    /\ conns = {}
    /\ timers = <<>>
    /\ clicks = 0
    /\ hist = <<>>
    /\ lastRun = <<>>

\* The world the click handler's calls run in: after initAudio() and after
\* `if (!activeSounds[sound.id]) activeSounds[sound.id] = new SoundNode(sound)`
ClickWorld ==
    LET W == [World EXCEPT !.conns = InitAudioConns(@)]
    IN  IF activeSounds = 0 THEN NewNode(W, sound) ELSE W

ClickNode == IF activeSounds = 0 THEN Len(nodes) + 1 ELSE activeSounds

ClickHist == IF activeSounds = 0 THEN Append(hist, NewHist) ELSE hist

Commit(W) ==
    /\ nodes' = W.nodes
    /\ objs' = W.objs
    /\ conns' = W.conns
    /\ timers' = W.timers

\* card click that turns the card active: start(), then setVolume(slider.value)
\* unless start() threw
ClickOn ==
    /\ clicks < MaxClicks
    /\ ~cardActive
    /\ LET n == ClickNode
           W1 == ClickWorld
           r == Start(W1, n)
           W2 == r.w
           W3 == IF r.threw THEN W2 ELSE SetVolume(W2, n, slider)
           h1 == ClickHist
           h2 == [h1 EXCEPT ![n] = HistStart(@, W1, W2, n)]
           h3 == IF r.threw THEN h2 ELSE [h2 EXCEPT ![n] = HistVolume(@, W2, n, slider)]
       IN  /\ Commit(W3)
           /\ activeSounds' = n
           /\ hist' = h3
           /\ lastRun' = <<Call("start", n, 0, W1, W2, h1[n], r.threw)>> \o
                         (IF r.threw THEN <<>>
                          ELSE <<Call("setVolume", n, slider, W2, W3, h2[n], FALSE)>>)
    /\ audioCtx' = TRUE
    /\ cardActive' = TRUE
    /\ clicks' = clicks + 1
    /\ UNCHANGED <<sound, slider>>

\* card click that turns the card inactive: stop(), then schedule the cleanup
ClickOff ==
    /\ clicks < MaxClicks
    /\ cardActive
    /\ LET n == ClickNode
           W1 == ClickWorld
           W2 == Stop(W1, n)
           W3 == [W2 EXCEPT !.timers =
                      Append(@, Timer("cleanup", 0, CleanupDelay, Len(W2.objs)))]
           h1 == ClickHist
       IN  /\ Commit(W3)
           /\ activeSounds' = n
           /\ hist' = [h1 EXCEPT ![n] = HistStop(@, W1, n)]
           /\ lastRun' = <<Call("stop", n, 0, W1, W2, h1[n], FALSE)>>
    /\ audioCtx' = TRUE
    /\ cardActive' = FALSE
    /\ clicks' = clicks + 1
    /\ UNCHANGED <<sound, slider>>

\* slider 'input' event
SlideInput(v) ==
    /\ v # slider
    /\ slider' = v
    /\ IF activeSounds # 0
       THEN LET n == activeSounds
                W1 == World
                W2 == SetVolume(W1, n, v)
            IN  /\ Commit(W2)
                /\ hist' = [hist EXCEPT ![n] = HistVolume(@, W1, n, v)]
                /\ lastRun' = <<Call("setVolume", n, v, W1, W2, hist[n], FALSE)>>
       ELSE /\ UNCHANGED <<nodes, objs, conns, timers, hist>>
            /\ lastRun' = <<>>
    /\ UNCHANGED <<sound, audioCtx, cardActive, activeSounds, clicks>>

----------------------------------------------------------------------------
(* Timers *)

\* Time advances in steps of the gap between the two delays.
Quantum == CleanupDelay - TeardownDelay

Due(i) == timers[i].rem <= 0

\* Timers of equal delay fire in scheduling order; a teardown and a cleanup
\* falling due in the same step may fire in either order.
MayFire(i) ==
    /\ i \in 1..Len(timers)
    /\ Due(i)
    /\ \A j \in 1..(i - 1) : ~(Due(j) /\ timers[j].kind = timers[i].kind)

Without(s, i) == SubSeq(s, 1, i - 1) \o SubSeq(s, i + 1, Len(s))

Tick ==
    /\ timers # <<>>
    /\ \A i \in 1..Len(timers) : ~Due(i)
    /\ timers' = [i \in 1..Len(timers) |-> [timers[i] EXCEPT !.rem = @ - Quantum]]
    /\ lastRun' = <<>>
    /\ UNCHANGED <<sound, audioCtx, cardActive, slider, activeSounds, nodes,
                   objs, conns, clicks, hist>>

FireTeardown ==
    \E i \in 1..Len(timers) :
        /\ MayFire(i)
        /\ timers[i].kind = "teardown"
        /\ LET n == timers[i].node
               W1 == [World EXCEPT !.timers = Without(@, i)]
               r == Teardown(W1, n)
           IN  /\ Commit(r.w)
               /\ lastRun' = <<Call("teardown", n, timers[i].mark, W1, r.w, hist[n],
                                    r.threw)>>
        /\ UNCHANGED <<sound, audioCtx, cardActive, slider, activeSounds, clicks, hist>>

\* a cleanup callback that runs but leaves the registry entry in place
FireCleanupKeeps ==
    \E i \in 1..Len(timers) :
        /\ MayFire(i)
        /\ timers[i].kind = "cleanup"
        /\ timers' = Without(timers, i)
        /\ lastRun' = <<>>
        /\ UNCHANGED <<sound, audioCtx, cardActive, slider, activeSounds, nodes,
                       objs, conns, clicks, hist>>

\* if (!card.classList.contains('active')) activeSounds[sound.id] = null
FireCleanup ==
    \E i \in 1..Len(timers) :
        /\ MayFire(i)
        /\ timers[i].kind = "cleanup"
        /\ timers' = Without(timers, i)
        /\ activeSounds' = IF ~cardActive THEN 0 ELSE activeSounds
        /\ lastRun' = <<>>
        /\ UNCHANGED <<sound, audioCtx, cardActive, slider, nodes, objs, conns,
                       clicks, hist>>

Next ==
    \/ ClickOn
    \/ ClickOff
    \/ \E v \in SliderVals : SlideInput(v)
    \/ Tick
    \/ FireTeardown
    \/ FireCleanup

Spec == Init /\ [][Next]_vars

\* The event loop is never starved: time passes and a callback whose delay
\* has elapsed is run.  Clicks and slider input are up to the user.
FairNext ==
    \/ (clicks < MaxLiveClicks /\ ClickOn)
    \/ (clicks < MaxLiveClicks /\ ClickOff)
    \/ \E v \in SliderVals : SlideInput(v)
    \/ Tick
    \/ FireTeardown
    \/ FireCleanup

FairSpec ==
    /\ Init
    /\ [][FairNext]_vars
    /\ WF_vars(Tick)
    /\ WF_vars(FireTeardown)
    /\ WF_vars(FireCleanup)

----------------------------------------------------------------------------
(* The SoundNode class used directly: a caller that constructs one node and
   calls its methods, with the teardown timers running. *)

ApiNew ==
    /\ nodes = <<>>
    /\ Commit(NewNode([World EXCEPT !.conns = InitAudioConns(@)], sound))
    /\ audioCtx' = TRUE
    /\ hist' = Append(hist, NewHist)
    /\ lastRun' = <<>>
    /\ UNCHANGED <<sound, cardActive, slider, activeSounds, clicks>>

ApiStart ==
    \E n \in 1..Len(nodes) :
        /\ clicks < MaxCalls
        /\ LET W1 == World
               r == Start(W1, n)
           IN  /\ Commit(r.w)
               /\ hist' = [hist EXCEPT ![n] = HistStart(@, W1, r.w, n)]
               /\ lastRun' = <<Call("start", n, 0, W1, r.w, hist[n], r.threw)>>
        /\ clicks' = clicks + 1
        /\ UNCHANGED <<sound, audioCtx, cardActive, slider, activeSounds>>

ApiStop ==
    \E n \in 1..Len(nodes) :
        /\ clicks < MaxCalls
        /\ LET W1 == World
               W2 == Stop(W1, n)
           IN  /\ Commit(W2)
               /\ hist' = [hist EXCEPT ![n] = HistStop(@, W1, n)]
               /\ lastRun' = <<Call("stop", n, 0, W1, W2, hist[n], FALSE)>>
        /\ clicks' = clicks + 1
        /\ UNCHANGED <<sound, audioCtx, cardActive, slider, activeSounds>>

ApiSetVolume(v) ==
    \E n \in 1..Len(nodes) :
        /\ clicks < MaxCalls
        /\ LET W1 == World
               W2 == SetVolume(W1, n, v)
           IN  /\ Commit(W2)
               /\ hist' = [hist EXCEPT ![n] = HistVolume(@, W1, n, v)]
               /\ lastRun' = <<Call("setVolume", n, v, W1, W2, hist[n], FALSE)>>
        /\ clicks' = clicks + 1
        /\ UNCHANGED <<sound, audioCtx, cardActive, slider, activeSounds>>

ApiNext ==
    \/ ApiNew
    \/ ApiStart
    \/ ApiStop
    \/ \E v \in ApiVols : ApiSetVolume(v)
    \/ Tick
    \/ FireTeardown

ApiSpec == Init /\ [][ApiNext]_vars

----------------------------------------------------------------------------
(* Properties *)

Calls(op) == {i \in 1..Len(lastRun) : lastRun[i].op = op}

\* the sources that have been started and not stopped
LiveSources ==
    {o \in 1..Len(objs) : objs[o].role = "source" /\ objs[o].st = "started"}

LiveSourcesOf(n) == {o \in LiveSources : objs[o].owner = n}

GainOf(W, n) == W.objs[W.nodes[n].gainNode].val

\* C1: after start() -> stop() -> start() on one node, the second start()
\* made before the teardown fired, and once every timer has fired with no
\* further start()/stop(), the node is playing with exactly one live source.
C1_RapidRestartOneLive ==
    \A n \in 1..Len(nodes) :
        (hist[n].seq = "SXS" /\ timers = <<>>) =>
            /\ nodes[n].isPlaying
            /\ Cardinality(LiveSourcesOf(n)) = 1

\* C2: at most one source is started and not stopped, over all the nodes ever
\* created for the card's profile.
C2_AtMostOneLiveSource == Cardinality(LiveSources) <= 1

\* C3: a teardown callback that finds a source created after the stop() that
\* scheduled it leaves everything as it is.
C3_StaleTeardownAbandons ==
    \A i \in Calls("teardown") :
        LET c == lastRun[i]
        IN  c.pre.nodes[c.node].source > c.arg => c.post = c.pre

\* C4: the registry entry is set to null only while the node it holds is not
\* playing, has no running source and has no teardown pending.
C4_ClearedOnlyWhenIdle ==
    [][(activeSounds # 0 /\ activeSounds' = 0) =>
          /\ ~nodes[activeSounds].isPlaying
          /\ LiveSourcesOf(activeSounds) = {}
          /\ ~TeardownPending(World, activeSounds)]_vars

\* C5: once a teardown has run on a node that was started, the node's gain is
\* not connected to the analyser and its source, filter and LFO have no
\* outgoing connection.
C5_TeardownDetachesAll ==
    \A i \in Calls("teardown") :
        LET c == lastRun[i]
            nd == c.post.nodes[c.node]
        IN  nd.source # 0 =>
              /\ <<nd.gainNode, ANALYSER, "in">> \notin c.post.conns
              /\ \A e \in c.post.conns : e[1] \notin {nd.source, nd.filter, nd.lfo}

\* C6: once a teardown has run, no oscillator created by the node's start()
\* is still running.
C6_NoOscillatorLeftRunning ==
    \A i \in Calls("teardown") :
        LET c == lastRun[i]
        IN  \A o \in 1..Len(c.post.objs) :
              (c.post.objs[o].owner = c.node /\ c.post.objs[o].kind = "osc")
                  => c.post.objs[o].st # "started"

\* C7: start() on a node that is playing (stopping included) changes nothing:
\* no node field, no engine object, no connection, no timer.
C7_StartNotIdleNoEffect ==
    \A i \in Calls("start") :
        LET c == lastRun[i]
        IN  c.pre.nodes[c.node].isPlaying => c.post = c.pre

C7_Witness ==
    \E i \in Calls("start") :
        /\ lastRun[i].pre.nodes[lastRun[i].node].isPlaying
        /\ TeardownPending(lastRun[i].pre, lastRun[i].node)

\* C8: stop() on a node that is not playing changes nothing: no timer is
\* scheduled and the gain target, source, lfo and isPlaying stay as they are.
C8_StopIdleNoEffect ==
    \A i \in Calls("stop") :
        LET c == lastRun[i]
        IN  ~c.pre.nodes[c.node].isPlaying => c.post = c.pre

C8_Witness ==
    \E i \in Calls("stop") :
        LET c == lastRun[i]
        IN  /\ ~c.pre.nodes[c.node].isPlaying
            /\ c.pre.nodes[c.node].source # 0
            /\ c.pre.objs[c.pre.nodes[c.node].source].st = "stopped"

\* C9: after stop() on a playing node and no further start()/stop() on it, the
\* node is playing exactly as long as a teardown is pending for it, and once
\* none is pending its source is not running.
C9_StopPlayingUntilTeardown ==
    \A n \in 1..Len(nodes) :
        hist[n].seq = "SX" =>
            /\ nodes[n].isPlaying <=> TeardownPending(World, n)
            /\ ~TeardownPending(World, n) => LiveSourcesOf(n) = {}

\* C10: start() on a node that is not playing, whose gain target was last set
\* by setVolume while it was not playing, leaves the gain target as set.
C10_StartKeepsVolume ==
    \A i \in Calls("start") :
        LET c == lastRun[i]
        IN  (~c.pre.nodes[c.node].isPlaying /\ c.h.volIdle)
                => GainOf(c.post, c.node) = GainOf(c.pre, c.node)

C10_Witness ==
    \E i \in Calls("start") :
        LET c == lastRun[i]
        IN  /\ ~c.pre.nodes[c.node].isPlaying
            /\ c.h.volIdle
            /\ c.post.nodes[c.node].isPlaying
            /\ GainOf(c.pre, c.node) = 80
            /\ GainOf(c.post, c.node) = 80

\* C11: setVolume with a value outside [0, 1] changes nothing: not the gain
\* target, not any other field of the node.
C11_SetVolumeRejectsOutOfRange ==
    \A i \in Calls("setVolume") :
        LET c == lastRun[i]
        IN  c.arg \notin 0..100 => c.post = c.pre

\* C12: a teardown callback that finds its source or LFO not running lets no
\* error out, and still leaves the node not playing with its source and LFO
\* disconnected.
C12_StoppedSourceSwallowed ==
    \A i \in Calls("teardown") :
        LET c == lastRun[i]
            nd == c.pre.nodes[c.node]
            refs == {nd.source, nd.lfo} \ {0}
        IN  (\E o \in refs : c.pre.objs[o].st # "started") =>
              /\ ~c.threw
              /\ ~c.post.nodes[c.node].isPlaying
              /\ \A e \in c.post.conns : e[1] \notin refs

C12_Witness ==
    \E i \in Calls("teardown") :
        LET c == lastRun[i]
            nd == c.pre.nodes[c.node]
        IN  /\ nd.source # 0
            /\ c.pre.objs[nd.source].st = "stopped"
            /\ ~c.threw
            /\ ~c.post.nodes[c.node].isPlaying

\* C13: once the card has been toggled off with its node playing, the registry
\* entry eventually becomes null unless the card is clicked again (a click
\* turns the card active); and a click that finds it null constructs a fresh
\* SoundNode.
C13_ToggledOffEventuallyCleared ==
    /\ (/\ ~cardActive
        /\ activeSounds # 0
        /\ hist[activeSounds].seq = "SX") ~> (activeSounds = 0 \/ cardActive)
    /\ [][(activeSounds = 0 /\ clicks' # clicks) =>
              (Len(nodes') = Len(nodes) + 1 /\ activeSounds' = Len(nodes'))]_vars

C13_Witness ==
    /\ ~cardActive
    /\ activeSounds = 0
    /\ timers = <<>>
    /\ \E n \in 1..Len(nodes) : hist[n].seq = "SX" /\ ~nodes[n].isPlaying

\* the stages connected into the input of x
Into(W, x) == {e[1] : e \in {d \in W.conns : d[2] = x /\ d[3] = "in"}}

\* a signal path from a to b through at most two intermediate stages
Reaches(W, a, b) ==
    \/ a \in Into(W, b)
    \/ \E x \in Into(W, b) : a \in Into(W, x)
    \/ \E x \in Into(W, b) : \E y \in Into(W, x) : a \in Into(W, y)

\* the objects a call created
Made(c) == (Len(c.pre.objs) + 1)..Len(c.post.objs)

\* C14: after start() on a node that is not playing, the source is running
\* and reaches the node's gain, the gain feeds the analyser, and the stage this
\* start() connected into the gain is the filter if the profile has one, else
\* the AM gain if the profile is a pulse oscillator, else the source.
C14_StartBuildsPath ==
    \A i \in Calls("start") :
        LET c == lastRun[i]
            W == c.post
            nd == W.nodes[c.node]
            cfg == nd.config
            last == Into(W, nd.gainNode) \cap Made(c)
        IN  ~c.pre.nodes[c.node].isPlaying =>
              /\ nd.source \in Made(c)
              /\ W.objs[nd.source].st = "started"
              /\ Reaches(W, nd.source, nd.gainNode)
              /\ <<nd.gainNode, ANALYSER, "in">> \in W.conns
              /\ Cardinality(last) = 1
              /\ \A x \in last :
                    IF cfg.filter # "" THEN x = nd.filter
                    ELSE IF cfg.modulation = "pulse" THEN W.objs[x].role = "amGain"
                    ELSE x = nd.source

\* the LFOs a call created
MadeLfos(c) == {o \in Made(c) : c.post.objs[o].role = "lfo"}

\* l is a running LFO of the given waveform and rate, routed through a gain
\* of the given depth into the cutoff of filter f
DrivesCutoff(W, l, f, wave, rate, depth) ==
    /\ W.objs[l].st = "started"
    /\ W.objs[l].typ = wave
    /\ W.objs[l].freq = rate
    /\ \E lg \in 1..Len(W.objs) :
          /\ W.objs[lg].kind = "gain"
          /\ W.objs[lg].val = depth
          /\ <<l, lg, "in">> \in W.conns
          /\ <<lg, f, "frequency">> \in W.conns

\* C15: a start() that builds a graph creates exactly one LFO for 'ocean'
\* (sine, 0.1 Hz, depth 300, base cutoff 300 Hz), 'fire' (sine, 15 Hz, depth
\* 100) and 'train' (sawtooth, 4 Hz, depth 200), started and routed through a
\* depth gain into the filter's cutoff, and no LFO for a profile without
\* modulation.
C15_CutoffModulation ==
    \A i \in Calls("start") :
        LET c == lastRun[i]
            W == c.post
            nd == W.nodes[c.node]
            id == nd.config.id
            f == nd.filter
        IN  (~c.pre.nodes[c.node].isPlaying /\ nd.isPlaying) =>
              /\ id \in {"ocean", "fire", "train"} => Cardinality(MadeLfos(c)) = 1
              /\ id = "ocean" =>
                    /\ W.objs[f].freq = 3000
                    /\ \A l \in MadeLfos(c) : DrivesCutoff(W, l, f, "sine", 1, 30000)
              /\ id = "fire" =>
                    \A l \in MadeLfos(c) : DrivesCutoff(W, l, f, "sine", 150, 10000)
              /\ id = "train" =>
                    \A l \in MadeLfos(c) : DrivesCutoff(W, l, f, "sawtooth", 40, 20000)
              /\ nd.config.modulation = "" => MadeLfos(c) = {}

C15_Witness ==
    \E i \in Calls("start") :
        LET c == lastRun[i]
            nd == c.post.nodes[c.node]
        IN  /\ nd.config.id = "train"
            /\ nd.isPlaying
            /\ ~c.pre.nodes[c.node].isPlaying
            /\ \E l \in MadeLfos(c) :
                  DrivesCutoff(c.post, l, nd.filter, "sawtooth", 40, 20000)

\* C16: one start() of the pulse profile creates exactly one AM gain and
\* exactly one LFO (square, 4 Hz), started.
C16_SinglePulseRoute ==
    \A i \in Calls("start") :
        LET c == lastRun[i]
            W == c.post
            nd == W.nodes[c.node]
        IN  (nd.config.modulation = "pulse" /\ ~c.pre.nodes[c.node].isPlaying) =>
              /\ Cardinality({o \in Made(c) : W.objs[o].role = "amGain"}) = 1
              /\ Cardinality(MadeLfos(c)) = 1
              /\ \A l \in MadeLfos(c) :
                    /\ W.objs[l].typ = "square"
                    /\ W.objs[l].freq = 40
                    /\ W.objs[l].st = "started"

PendingTeardowns(n) ==
    {i \in 1..Len(timers) : timers[i].kind = "teardown" /\ timers[i].node = n}

\* C17: at most one teardown callback is pending for a node.
C17_OneTeardownPending ==
    \A n \in 1..Len(nodes) : Cardinality(PendingTeardowns(n)) <= 1

\* C18: a teardown callback that stops a running source finds the node's gain
\* target at 0.
C18_SourceCutAtZeroGain ==
    \A i \in Calls("teardown") :
        LET c == lastRun[i]
            src == c.pre.nodes[c.node].source
        IN  (src # 0 /\ c.pre.objs[src].st = "started" /\ c.post.objs[src].st = "stopped")
                => GainOf(c.pre, c.node) = 0

\* C19: with no timer pending, the card is active exactly if the registry
\* holds a node whose source is running.
C19_CardMatchesAudio ==
    timers = <<>> =>
        (cardActive <=> (activeSounds # 0 /\ LiveSourcesOf(activeSounds) # {}))

\* C20: a start() that rebuilds the graph of a node whose gain a stop() faded
\* out, with no setVolume since, leaves the gain target at the value of the
\* last setVolume (when that was above 0).
C20_RestartRestoresVolume ==
    \A i \in Calls("start") :
        LET c == lastRun[i]
        IN  (/\ ~c.pre.nodes[c.node].isPlaying
             /\ c.post.nodes[c.node].isPlaying
             /\ c.h.faded
             /\ c.h.vol > 0) => GainOf(c.post, c.node) = c.h.vol

====
